---- MODULE Spec2Model ----
(***************************************************************************)
(* Duplicate-merge engine of takemetothefair                               *)
(* (src/src/lib/duplicates/merge-operations.ts).                           *)
(*                                                                         *)
(* The storage is the Prisma database: four entity tables (venue,          *)
(* promoter, vendor, event), the join table eventVendor and the            *)
(* polymorphic table userFavorite.  getMergePreview and executeMerge are   *)
(* the operations; executeMerge runs its writes inside prisma.$transaction *)
(* and a storage call may fail at any point of it.                         *)
(***************************************************************************)
EXTENDS Integers, FiniteSets, Sequences, TLC

\* ------------------------------------------------------------------ bounds
MaxId     == 2    \* ids of every entity kind are 1..MaxId
MaxView   == 1    \* smallest initial view counter
MaxRows   == 3    \* initial number of eventVendor rows and of favorites
                  \* per tag of a database that has any
MaxMerges == 2    \* successful merges in one behaviour
MaxLen    == 3    \* characters of a query parameter

Ids == 1..MaxId

Types == {"venues", "events", "vendors", "promoters"}

\* favoritableType tag written by the merge routine of each entity type
FavTag(type) ==
  CASE type = "venues"    -> "venue"
    [] type = "events"    -> "event"
    [] type = "vendors"   -> "vendor"
    [] type = "promoters" -> "promoter"

\* db: the committed tables; last: what the last finished call gave its
\* caller; merged: the merges that have succeeded; tasks: the calls that are
\* in flight when calls run concurrently
VARIABLES db, last, merged, tasks

vars == <<db, last, merged, tasks>>

\* the two concurrent callers
TaskIds == {"a", "b"}

Idle == [op |-> "idle"]

\* ----------------------------------------------------------- storage reads
\* prisma.<model>.findUnique({ where: { id } }) # null
Exists(d, type, id) ==
  CASE type = "venues"    -> id \in d.venue
    [] type = "events"    -> id \in DOMAIN d.event
    [] type = "vendors"   -> id \in DOMAIN d.vendor
    [] type = "promoters" -> id \in DOMAIN d.promoter

\* number of records of an entity type
CountOf(d, type) ==
  CASE type = "venues"    -> Cardinality(d.venue)
    [] type = "events"    -> Cardinality(DOMAIN d.event)
    [] type = "vendors"   -> Cardinality(DOMAIN d.vendor)
    [] type = "promoters" -> Cardinality(DOMAIN d.promoter)

\* userFavorite rows of one tag on one target
FavoritesOn(d, tag, id) ==
  {f \in d.userFavorite : f.favoritableType = tag /\ f.favoritableId = id}

\* eventVendor rows of one vendor / of one event
RowsOfVendor(d, vendorId) == {ev \in d.eventVendor : ev.vendorId = vendorId}

RowsOfEvent(d, eventId) == {ev \in d.eventVendor : ev.eventId = eventId}

\* events located at a venue / run by a promoter
EventsAtVenue(d, venueId) == {e \in DOMAIN d.event : d.event[e].venueId = venueId}

EventsOfPromoter(d, promoterId) ==
  {e \in DOMAIN d.event : d.event[e].promoterId = promoterId}

\* ----------------------------------------------------- storage constraints
\* The relations Event -> Venue, Event -> Promoter, EventVendor -> Event and
\* EventVendor -> Vendor are foreign keys of the schema; userFavorite has
\* none.  The storage rejects a write whose result would break one of them.
ForeignKeysNotEnforced(d) == TRUE

ForeignKeyOK(d) ==
  /\ \A e \in DOMAIN d.event :
        /\ d.event[e].venueId \in d.venue
        /\ d.event[e].promoterId \in DOMAIN d.promoter
  /\ \A ev \in d.eventVendor :
        /\ ev.eventId \in DOMAIN d.event
        /\ ev.vendorId \in DOMAIN d.vendor

\* unique index eventVendor(eventId, vendorId)
UniqueEventVendor(d) ==
  \A x, y \in d.eventVendor :
     (x.eventId = y.eventId /\ x.vendorId = y.vendorId) => x = y

\* unique index userFavorite(userId, favoritableType, favoritableId)
UniqueFavorite(d) ==
  \A x, y \in d.userFavorite :
     (/\ x.userId = y.userId
      /\ x.favoritableType = y.favoritableType
      /\ x.favoritableId = y.favoritableId) => x = y

\* ------------------------------------------------- transaction bookkeeping
\* State of a running prisma.$transaction callback: the transaction's view of
\* the tables, whether a call has thrown, how many write calls were issued.
TxStart(d, counts) ==
  [db |-> d, ok |-> TRUE, n |-> 0, transferred |-> counts]

\* One write call of the callback.  The call throws when the storage faults
\* on it (fault = its index), when the record of a delete/update is missing
\* (notFound) or when the result would break a foreign key; a thrown call
\* leaves the callback, so later calls are not issued.
Call(r, fault, notFound, newdb) ==
  IF ~r.ok THEN r
  ELSE IF fault = r.n + 1 \/ notFound \/ ~ForeignKeyOK(newdb)
       THEN [r EXCEPT !.ok = FALSE, !.n = r.n + 1]
       ELSE [r EXCEPT !.db = newdb, !.n = r.n + 1]

\* prisma.$transaction(async (tx) => ...): the writes become visible when the
\* callback returns and are rolled back when it throws.
CommitNoRollback(d, r) == r.db

Commit(d, r) == IF r.ok THEN r.db ELSE d

\* ------------------------------------------------------ favorites transfer
\* existingUserIds: users who already have the primary favorited
ExistingUserIds(d, tag, primaryId) ==
  {f.userId : f \in FavoritesOn(d, tag, primaryId)}

\* favoritesToTransfer: the duplicate's rows of users not in existingUserIds
FavoritesToTransferKeepAll(d, tag, primaryId, duplicateId) ==
  FavoritesOn(d, tag, duplicateId)

FavoritesToTransfer(d, tag, primaryId, duplicateId) ==
  {f \in FavoritesOn(d, tag, duplicateId) :
      f.userId \notin ExistingUserIds(d, tag, primaryId)}

\* tx.userFavorite.updateMany({ where: { id: { in } }, data: { favoritableId } })
FavoriteUpdateMany(d, rows, primaryId) ==
  [d EXCEPT !.userFavorite =
     {IF f \in rows THEN [f EXCEPT !.favoritableId = primaryId] ELSE f : f \in @}]

\* tx.userFavorite.deleteMany({ where: { favoritableType, favoritableId } })
FavoriteDeleteManySkip(d, tag, duplicateId) == d

FavoriteDeleteManyOfAnyType(d, tag, duplicateId) ==
  [d EXCEPT !.userFavorite = {f \in @ : f.favoritableId # duplicateId}]

FavoriteDeleteMany(d, tag, duplicateId) ==
  [d EXCEPT !.userFavorite = @ \ FavoritesOn(d, tag, duplicateId)]

\* "Transfer favorites" block shared by the four merge routines
TransferFavorites(r, fault, tag, primaryId, duplicateId) ==
  LET toTransfer == FavoritesToTransfer(r.db, tag, primaryId, duplicateId)
      r1 == IF toTransfer # {}
            THEN LET c == Call(r, fault, FALSE,
                               FavoriteUpdateMany(r.db, toTransfer, primaryId))
                 IN  IF c.ok
                     THEN [c EXCEPT !.transferred.favorites = Cardinality(toTransfer)]
                     ELSE c
            ELSE r
  IN  Call(r1, fault, FALSE, FavoriteDeleteMany(r1.db, tag, duplicateId))

\* ------------------------------------------------------------- mergeVenues
\* tx.event.updateMany({ where: { venueId: duplicateId }, data: { venueId } })
EventUpdateManyVenue(d, primaryId, duplicateId) ==
  [d EXCEPT !.event =
     [e \in DOMAIN d.event |->
        IF d.event[e].venueId = duplicateId
        THEN [venueId    |-> primaryId,
              promoterId |-> d.event[e].promoterId,
              viewCount  |-> d.event[e].viewCount]
        ELSE d.event[e]]]

\* tx.venue.delete({ where: { id: duplicateId } })
VenueDeleteSkip(d, duplicateId) == d

VenueDelete(d, duplicateId) == [d EXCEPT !.venue = @ \ {duplicateId}]

\* callback of the transaction of mergeVenues
MergeVenuesTx(d, primaryId, duplicateId, fault) ==
  LET r0 == TxStart(d, [events |-> 0, favorites |-> 0])
      c1 == Call(r0, fault, FALSE,
                 EventUpdateManyVenue(d, primaryId, duplicateId))
      r1 == IF c1.ok
            THEN [c1 EXCEPT !.transferred.events =
                              Cardinality(EventsAtVenue(d, duplicateId))]
            ELSE c1
      r2 == TransferFavorites(r1, fault, "venue", primaryId, duplicateId)
  IN  Call(r2, fault, duplicateId \notin r2.db.venue,
           VenueDelete(r2.db, duplicateId))

\* ---------------------------------------------------------- mergePromoters
\* tx.event.updateMany({ where: { promoterId: duplicateId }, data: { promoterId } })
EventUpdateManyPromoter(d, primaryId, duplicateId) ==
  [d EXCEPT !.event =
     [e \in DOMAIN d.event |->
        IF d.event[e].promoterId = duplicateId
        THEN [venueId    |-> d.event[e].venueId,
              promoterId |-> primaryId,
              viewCount  |-> d.event[e].viewCount]
        ELSE d.event[e]]]

\* tx.promoter.delete({ where: { id: duplicateId } })
PromoterDelete(d, duplicateId) ==
  [d EXCEPT !.promoter =
     [p \in (DOMAIN d.promoter) \ {duplicateId} |-> d.promoter[p]]]

\* callback of the transaction of mergePromoters
MergePromotersTx(d, primaryId, duplicateId, fault) ==
  LET r0 == TxStart(d, [events |-> 0, favorites |-> 0])
      c1 == Call(r0, fault, FALSE,
                 EventUpdateManyPromoter(d, primaryId, duplicateId))
      r1 == IF c1.ok
            THEN [c1 EXCEPT !.transferred.events =
                              Cardinality(EventsOfPromoter(d, duplicateId))]
            ELSE c1
      r2 == TransferFavorites(r1, fault, "promoter", primaryId, duplicateId)
  IN  Call(r2, fault, duplicateId \notin DOMAIN r2.db.promoter,
           PromoterDelete(r2.db, duplicateId))

\* ------------------------------------------------------------ mergeVendors
\* tx.eventVendor.deleteMany({ where: { vendorId: duplicateId,
\*                                      eventId: { in: primaryEventIds } } })
EventVendorDeleteOverlapOfVendorSkip(d, primaryId, duplicateId) == d

EventVendorDeleteOverlapOfVendor(d, primaryId, duplicateId) ==
  LET primaryEventIds == {ev.eventId : ev \in RowsOfVendor(d, primaryId)}
  IN  [d EXCEPT !.eventVendor =
         {ev \in @ : ~(ev.vendorId = duplicateId /\ ev.eventId \in primaryEventIds)}]

\* tx.eventVendor.updateMany({ where: { vendorId: duplicateId }, data: { vendorId } })
EventVendorUpdateManyVendor(d, primaryId, duplicateId) ==
  [d EXCEPT !.eventVendor =
     {IF ev.vendorId = duplicateId
      THEN [id |-> ev.id, eventId |-> ev.eventId, vendorId |-> primaryId]
      ELSE ev : ev \in @}]

\* tx.vendor.delete({ where: { id: duplicateId } })
VendorDelete(d, duplicateId) ==
  [d EXCEPT !.vendor =
     [v \in (DOMAIN d.vendor) \ {duplicateId} |-> d.vendor[v]]]

\* callback of the transaction of mergeVendors
MergeVendorsTx(d, primaryId, duplicateId, fault) ==
  LET r0 == TxStart(d, [eventVendors |-> 0, favorites |-> 0])
      r1 == Call(r0, fault, FALSE,
                 EventVendorDeleteOverlapOfVendor(d, primaryId, duplicateId))
      c2 == Call(r1, fault, FALSE,
                 EventVendorUpdateManyVendor(r1.db, primaryId, duplicateId))
      r2 == IF c2.ok
            THEN [c2 EXCEPT !.transferred.eventVendors =
                              Cardinality(RowsOfVendor(r1.db, duplicateId))]
            ELSE c2
      r3 == TransferFavorites(r2, fault, "vendor", primaryId, duplicateId)
  IN  Call(r3, fault, duplicateId \notin DOMAIN r3.db.vendor,
           VendorDelete(r3.db, duplicateId))

\* ------------------------------------------------------------- mergeEvents
\* tx.eventVendor.deleteMany({ where: { eventId: duplicateId,
\*                                      vendorId: { in: primaryVendorIds } } })
EventVendorDeleteOverlapOfEvent(d, primaryId, duplicateId) ==
  LET primaryVendorIds == {ev.vendorId : ev \in RowsOfEvent(d, primaryId)}
  IN  [d EXCEPT !.eventVendor =
         {ev \in @ : ~(ev.eventId = duplicateId /\ ev.vendorId \in primaryVendorIds)}]

\* tx.eventVendor.updateMany({ where: { eventId: duplicateId }, data: { eventId } })
EventVendorUpdateManyEvent(d, primaryId, duplicateId) ==
  [d EXCEPT !.eventVendor =
     {IF ev.eventId = duplicateId
      THEN [id |-> ev.id, eventId |-> primaryId, vendorId |-> ev.vendorId]
      ELSE ev : ev \in @}]

\* tx.event.update({ where: { id: primaryId },
\*                   data: { viewCount: { increment: duplicate.viewCount } } })
EventIncrementViewCount(d, primaryId, amount) ==
  IF primaryId \in DOMAIN d.event
  THEN [d EXCEPT !.event[primaryId].viewCount = @ + amount]
  ELSE d

\* tx.event.delete({ where: { id: duplicateId } })
EventDelete(d, duplicateId) ==
  [d EXCEPT !.event =
     [e \in (DOMAIN d.event) \ {duplicateId} |-> d.event[e]]]

\* callback of the transaction of mergeEvents
MergeEventsTx(d, primaryId, duplicateId, fault) ==
  LET r0 == TxStart(d, [eventVendors |-> 0, favorites |-> 0])
      r1 == Call(r0, fault, FALSE,
                 EventVendorDeleteOverlapOfEvent(d, primaryId, duplicateId))
      c2 == Call(r1, fault, FALSE,
                 EventVendorUpdateManyEvent(r1.db, primaryId, duplicateId))
      r2 == IF c2.ok
            THEN [c2 EXCEPT !.transferred.eventVendors =
                              Cardinality(RowsOfEvent(r1.db, duplicateId))]
            ELSE c2
      \* const duplicate = await tx.event.findUnique(...); if (duplicate) ...
      r3 == IF duplicateId \in DOMAIN r2.db.event
            THEN Call(r2, fault, primaryId \notin DOMAIN r2.db.event,
                      EventIncrementViewCount(r2.db, primaryId,
                                              r2.db.event[duplicateId].viewCount))
            ELSE r2
      r4 == TransferFavorites(r3, fault, "event", primaryId, duplicateId)
  IN  Call(r4, fault, duplicateId \notin DOMAIN r4.db.event,
           EventDelete(r4.db, duplicateId))

\* ------------------------------------------------------------ executeMerge
\* switch (type) of executeMerge
MergeTx(type, d, primaryId, duplicateId, fault) ==
  CASE type = "venues"    -> MergeVenuesTx(d, primaryId, duplicateId, fault)
    [] type = "events"    -> MergeEventsTx(d, primaryId, duplicateId, fault)
    [] type = "vendors"   -> MergeVendorsTx(d, primaryId, duplicateId, fault)
    [] type = "promoters" -> MergePromotersTx(d, primaryId, duplicateId, fault)

\* number of write calls a merge callback can issue (mergeEvents issues six)
MaxCalls == 6

\* prisma.<model>.findUnique({ where: { id: primaryId } }) after the
\* transaction: the set holding the record, empty when the result is null
FindUnique(d, type, id) ==
  IF ~Exists(d, type, id) THEN {}
  ELSE CASE type = "venues"    -> {[id |-> id]}
         [] type = "events"    -> {[id |-> id, venueId |-> d.event[id].venueId,
                                    promoterId |-> d.event[id].promoterId,
                                    viewCount |-> d.event[id].viewCount]}
         [] type = "vendors"   -> {[id |-> id, userId |-> d.vendor[id]]}
         [] type = "promoters" -> {[id |-> id, userId |-> d.promoter[id]]}

\* What the caller of executeMerge gets: the MergeResponse (kept with the
\* arguments of the call) when the call returns, the thrown error when the
\* transaction aborts.  dirty tells whether the callback had written, again
\* whether the call repeated a merge that had succeeded before.
Returned(type, primaryId, duplicateId, response, dirty) ==
  [op          |-> "executeMerge",
   type        |-> type,
   outcome     |-> "success",
   dirty       |-> dirty,
   primaryId   |-> primaryId,
   duplicateId |-> duplicateId,
   result      |-> {response}]

Thrown(type, again, dirty) ==
  [op      |-> "executeMerge",
   type    |-> type,
   outcome |-> "failed",
   dirty   |-> dirty,
   again   |-> again,
   result  |-> {}]

\* executeMerge(type, primaryId, duplicateId); fault = 0 is a run without a
\* storage fault, fault = k a run whose k-th write call faults
ExecuteMerge(type, primaryId, duplicateId, fault) ==
  LET r == MergeTx(type, db, primaryId, duplicateId, fault)
      d == Commit(db, r)
  IN  /\ Cardinality(merged) < MaxMerges
      /\ db' = d
      /\ last' = IF r.ok
                 THEN Returned(type, primaryId, duplicateId,
                               [success      |-> TRUE,
                                mergedEntity |-> FindUnique(d, type, primaryId),
                                transferredRelationships |-> r.transferred,
                                deletedId    |-> duplicateId],
                               r.db # db)
                 ELSE Thrown(type, <<type, primaryId, duplicateId>> \in merged,
                             r.db # db)
      /\ merged' = IF r.ok
                   THEN merged \cup {<<type, primaryId, duplicateId>>}
                   ELSE merged
      /\ UNCHANGED tasks

\* --------------------------------------------------------- getMergePreview
Warning(kind, count) == [kind |-> kind, count |-> count]

\* if (!primary || !duplicate) throw new Error("One or both ... not found")
PreviewThrows(d, type, primaryId, duplicateId) ==
  ~Exists(d, type, primaryId) \/ ~Exists(d, type, duplicateId)

\* prisma.userFavorite.count({ where: { favoritableType, favoritableId: duplicateId } })
FavoritesCount(d, tag, duplicateId) == Cardinality(FavoritesOn(d, tag, duplicateId))

\* getVenueMergePreview: the set holding the returned preview, empty when it
\* throws
VenuePreview(d, primaryId, duplicateId) ==
  IF PreviewThrows(d, "venues", primaryId, duplicateId) THEN {}
  ELSE {
       [primary   |-> FindUnique(d, "venues", primaryId),
        duplicate |-> FindUnique(d, "venues", duplicateId),
        relationshipsToTransfer |->
          [events    |-> Cardinality(EventsAtVenue(d, duplicateId)),
           favorites |-> FavoritesCount(d, "venue", duplicateId)],
        warnings  |-> << >>,
        canMerge  |-> TRUE]}

\* getPromoterMergePreview: the set holding the returned preview, empty when it
\* throws
PromoterPreviewNoWarning(d, primaryId, duplicateId) ==
  IF PreviewThrows(d, "promoters", primaryId, duplicateId) THEN {}
  ELSE {
       [primary   |-> FindUnique(d, "promoters", primaryId),
        duplicate |-> FindUnique(d, "promoters", duplicateId),
        relationshipsToTransfer |->
          [events    |-> Cardinality(EventsOfPromoter(d, duplicateId)),
           favorites |-> FavoritesCount(d, "promoter", duplicateId)],
        warnings  |-> << >>,
        canMerge  |-> TRUE]}

PromoterPreview(d, primaryId, duplicateId) ==
  IF PreviewThrows(d, "promoters", primaryId, duplicateId) THEN {}
  ELSE {
       [primary   |-> FindUnique(d, "promoters", primaryId),
        duplicate |-> FindUnique(d, "promoters", duplicateId),
        relationshipsToTransfer |->
          [events    |-> Cardinality(EventsOfPromoter(d, duplicateId)),
           favorites |-> FavoritesCount(d, "promoter", duplicateId)],
        warnings  |-> IF d.promoter[primaryId] # d.promoter[duplicateId]
                      THEN << Warning("differentUserAccounts", 0) >>
                      ELSE << >>,
        canMerge  |-> TRUE]}

\* overlappingEvents of getVendorMergePreview: the duplicate's rows whose
\* event is in primaryEventSet
OverlappingEventsNone(d, primaryId, duplicateId) == {}

OverlappingEvents(d, primaryId, duplicateId) ==
  LET primaryEventSet == {ev.eventId : ev \in RowsOfVendor(d, primaryId)}
  IN  {ev \in RowsOfVendor(d, duplicateId) : ev.eventId \in primaryEventSet}

\* getVendorMergePreview: the set holding the returned preview, empty when it
\* throws
VendorPreviewBlockedByOverlap(d, primaryId, duplicateId) ==
  IF PreviewThrows(d, "vendors", primaryId, duplicateId) THEN {}
  ELSE {
       LET overlap == Cardinality(OverlappingEvents(d, primaryId, duplicateId))
       IN  [primary   |-> FindUnique(d, "vendors", primaryId),
            duplicate |-> FindUnique(d, "vendors", duplicateId),
            relationshipsToTransfer |->
              [eventVendors |-> Cardinality(RowsOfVendor(d, duplicateId)) - overlap,
               favorites    |-> FavoritesCount(d, "vendor", duplicateId)],
            warnings  |-> (IF d.vendor[primaryId] # d.vendor[duplicateId]
                           THEN << Warning("differentUserAccounts", 0) >>
                           ELSE << >>)
                          \o (IF overlap > 0
                              THEN << Warning("overlappingEvents", overlap) >>
                              ELSE << >>),
            canMerge  |-> overlap = 0]}

VendorPreview(d, primaryId, duplicateId) ==
  IF PreviewThrows(d, "vendors", primaryId, duplicateId) THEN {}
  ELSE {
       LET overlap == Cardinality(OverlappingEvents(d, primaryId, duplicateId))
       IN  [primary   |-> FindUnique(d, "vendors", primaryId),
            duplicate |-> FindUnique(d, "vendors", duplicateId),
            relationshipsToTransfer |->
              [eventVendors |-> Cardinality(RowsOfVendor(d, duplicateId)) - overlap,
               favorites    |-> FavoritesCount(d, "vendor", duplicateId)],
            warnings  |-> (IF d.vendor[primaryId] # d.vendor[duplicateId]
                           THEN << Warning("differentUserAccounts", 0) >>
                           ELSE << >>)
                          \o (IF overlap > 0
                              THEN << Warning("overlappingEvents", overlap) >>
                              ELSE << >>),
            canMerge  |-> TRUE]}

\* overlappingVendors of getEventMergePreview
OverlappingVendors(d, primaryId, duplicateId) ==
  LET primaryVendorSet == {ev.vendorId : ev \in RowsOfEvent(d, primaryId)}
  IN  {ev \in RowsOfEvent(d, duplicateId) : ev.vendorId \in primaryVendorSet}

\* getEventMergePreview: the set holding the returned preview, empty when it
\* throws
EventPreview(d, primaryId, duplicateId) ==
  IF PreviewThrows(d, "events", primaryId, duplicateId) THEN {}
  ELSE {
       LET overlap == Cardinality(OverlappingVendors(d, primaryId, duplicateId))
       IN  [primary   |-> FindUnique(d, "events", primaryId),
            duplicate |-> FindUnique(d, "events", duplicateId),
            relationshipsToTransfer |->
              [eventVendors |-> Cardinality(RowsOfEvent(d, duplicateId)) - overlap,
               favorites    |-> FavoritesCount(d, "event", duplicateId)],
            warnings  |-> (IF d.event[primaryId].promoterId # d.event[duplicateId].promoterId
                           THEN << Warning("differentPromoters", 0) >>
                           ELSE << >>)
                          \o (IF d.event[primaryId].venueId # d.event[duplicateId].venueId
                              THEN << Warning("differentVenues", 0) >>
                              ELSE << >>)
                          \o (IF overlap > 0
                              THEN << Warning("overlappingVendors", overlap) >>
                              ELSE << >>),
            canMerge  |-> TRUE]}

\* switch (type) of getMergePreview
PreviewVendorsAsPromoters(d, type, primaryId, duplicateId) ==
  CASE type = "venues"    -> VenuePreview(d, primaryId, duplicateId)
    [] type = "events"    -> EventPreview(d, primaryId, duplicateId)
    [] type = "vendors"   -> PromoterPreview(d, primaryId, duplicateId)
    [] type = "promoters" -> PromoterPreview(d, primaryId, duplicateId)

Preview(d, type, primaryId, duplicateId) ==
  CASE type = "venues"    -> VenuePreview(d, primaryId, duplicateId)
    [] type = "events"    -> EventPreview(d, primaryId, duplicateId)
    [] type = "vendors"   -> VendorPreview(d, primaryId, duplicateId)
    [] type = "promoters" -> PromoterPreview(d, primaryId, duplicateId)

\* getMergePreview(type, primaryId, duplicateId): read-only
GetMergePreview(type, primaryId, duplicateId) ==
  LET p == Preview(db, type, primaryId, duplicateId)
  IN  /\ last' = [op          |-> "getMergePreview",
                  type        |-> type,
                  primaryId   |-> primaryId,
                  duplicateId |-> duplicateId,
                  outcome     |-> IF p = {} THEN "failed" ELSE "success",
                  dirty       |-> FALSE,
                  result      |-> p]
      /\ UNCHANGED <<db, merged, tasks>>

\* ------------------------------------------------------------ initial state
Min(a, b) == IF a < b THEN a ELSE b

\* (eventId, vendorId) of the initial eventVendor rows, in creation order
LinkOrder == << <<1, 1>>, <<2, 1>>, <<2, 2>>, <<1, 2>> >>

\* (userId, favoritableId) of the initial favorites of a tag, in creation order
FavOrder == << <<1, 1>>, <<1, 2>>, <<2, 2>>, <<2, 1>> >>

TagOrder == << "venue", "event", "vendor", "promoter" >>

\* A database whose constraints hold.  Every entity 1..MaxId of each kind
\* exists; event 1 is at venue a with promoter a, the other events are at
\* venue 1 with promoter 1; event e has been viewed MaxView + e - 1 times;
\* the first n rows of LinkOrder are the eventVendor rows; the first n pairs
\* of FavOrder are favorited under every tag.
InitialDb(a, n) ==
  [venue    |-> Ids,
   promoter |-> [p \in Ids |-> p],
   vendor   |-> [v \in Ids |-> v],
   event    |-> [e \in Ids |->
                   [venueId    |-> IF e = 1 THEN a ELSE 1,
                    promoterId |-> IF e = 1 THEN a ELSE 1,
                    viewCount  |-> MaxView + e - 1]],
   eventVendor  |-> {[id |-> i, eventId |-> LinkOrder[i][1],
                      vendorId |-> LinkOrder[i][2]] :
                        i \in 1..Min(n, Len(LinkOrder))},
   userFavorite |-> {[id |-> 4 * (i - 1) + t,
                      userId |-> FavOrder[i][1],
                      favoritableType |-> TagOrder[t],
                      favoritableId |-> FavOrder[i][2]] :
                        i \in 1..Min(n, Len(FavOrder)), t \in 1..4}]

Init ==
  /\ \E a \in Ids, n \in {0, MaxRows} : db = InitialDb(a, n)
  /\ last = [op |-> "none"]
  /\ merged = {}
  /\ tasks = [t \in TaskIds |-> Idle]

\* executeMerge calls on a storage that does not fault
FaultFreeMergeStep ==
  \E type \in Types, primaryId \in Ids, duplicateId \in Ids :
     ExecuteMerge(type, primaryId, duplicateId, 0)

Next == FaultFreeMergeStep

Spec == Init /\ [][Next]_vars

\* executeMerge calls on a storage that may fault at any write call, from
\* the fullest initial database
FaultInit ==
  /\ db = InitialDb(MaxId, MaxRows)
  /\ last = [op |-> "none"]
  /\ merged = {}
  /\ tasks = [t \in TaskIds |-> Idle]

MergeStep ==
  \E type \in Types, primaryId \in Ids, duplicateId \in Ids, fault \in 0..MaxCalls :
     ExecuteMerge(type, primaryId, duplicateId, fault)

FaultNext == MergeStep

FaultSpec == FaultInit /\ [][FaultNext]_vars

\* getMergePreview calls with any ids (0 never names a record) on an initial
\* database or on one that a merge has changed
ArgIds == 0..MaxId

PreviewInit ==
  /\ \E a \in Ids, n \in {0, MaxRows} :
        \/ db = InitialDb(a, n)
        \/ \E type \in Types, primaryId \in Ids, duplicateId \in Ids :
              LET r == MergeTx(type, InitialDb(a, n), primaryId, duplicateId, 0)
              IN  r.ok /\ db = r.db
  /\ last = [op |-> "none"]
  /\ merged = {}
  /\ tasks = [t \in TaskIds |-> Idle]

PreviewStep ==
  \E type \in Types, primaryId \in ArgIds, duplicateId \in ArgIds :
     GetMergePreview(type, primaryId, duplicateId)

PreviewNext == PreviewStep

PreviewSpec == PreviewInit /\ [][PreviewNext]_vars

\* ---------------------------------------------------------- toggleFavorite
\* prisma.userFavorite.findUnique by (userId, favoritableType, favoritableId):
\* the rows it may return, none when it returns null
FavoriteFindUnique(d, userId, favoritableType, favoritableId) ==
  {f \in d.userFavorite : /\ f.userId = userId
                          /\ f.favoritableType = favoritableType
                          /\ f.favoritableId = favoritableId}

\* the id the storage gives a new row
NewFavoriteId(d) ==
  IF d.userFavorite = {} THEN 1
  ELSE 1 + (CHOOSE m \in {f.id : f \in d.userFavorite} :
               \A f \in d.userFavorite : f.id <= m)

\* prisma.userFavorite.delete({ where: { id } }): throws when no row has the id
FavoriteDelete(d, id) ==
  [ok |-> \E f \in d.userFavorite : f.id = id,
   db |-> [d EXCEPT !.userFavorite = {f \in @ : f.id # id}]]

\* prisma.userFavorite.create: the unique index on (userId, favoritableType,
\* favoritableId), which findUnique reads by, rejects a second row of a triple
FavoriteCreateWithoutIndex(d, userId, favoritableType, favoritableId) ==
  [ok |-> TRUE,
   db |-> [d EXCEPT !.userFavorite =
             @ \cup {[id              |-> NewFavoriteId(d),
                      userId          |-> userId,
                      favoritableType |-> favoritableType,
                      favoritableId   |-> favoritableId]}]]

FavoriteCreate(d, userId, favoritableType, favoritableId) ==
  [ok |-> FavoriteFindUnique(d, userId, favoritableType, favoritableId) = {},
   db |-> [d EXCEPT !.userFavorite =
             @ \cup {[id              |-> NewFavoriteId(d),
                      userId          |-> userId,
                      favoritableType |-> favoritableType,
                      favoritableId   |-> favoritableId]}]]

\* the write of toggleFavorite after findUnique returned existing (a set
\* holding the row, empty for null), and what the call returns
ToggleWriteOf(d, existing, userId, favoritableType, favoritableId) ==
  IF existing # {}
  THEN LET r == FavoriteDelete(d, (CHOOSE f \in existing : TRUE).id)
       IN  [ok |-> r.ok, db |-> r.db, isFavorited |-> FALSE]
  ELSE LET r == FavoriteCreate(d, userId, favoritableType, favoritableId)
       IN  [ok |-> r.ok, db |-> r.db, isFavorited |-> TRUE]

\* toggleFavorite run with no other call in between
ToggleFavorite(d, userId, favoritableType, favoritableId) ==
  LET found    == FavoriteFindUnique(d, userId, favoritableType, favoritableId)
      existing == IF found = {} THEN {} ELSE {CHOOSE f \in found : TRUE}
  IN  ToggleWriteOf(d, existing, userId, favoritableType, favoritableId)

\* --------------------------------------------------------- concurrent calls
\* Two callers run executeMerge or getMergePreview("venues", ...) at the same
\* time; every storage call of a caller is one step.

\* the callback of a merge task run to its end on the task's snapshot
TxRun(task) ==
  MergeTx(task.type, task.base, task.primaryId, task.duplicateId, 0)

\* number of write calls of the callback that return (the one that throws
\* does not)
CompletedCalls(task) ==
  LET r == TxRun(task) IN IF r.ok THEN r.n ELSE r.n - 1

\* the tables as the transaction of a merge task sees them after the write
\* calls it has made so far
TxView(task) ==
  MergeTx(task.type, task.base, task.primaryId, task.duplicateId,
          task.done + 1).db

\* What a query outside a transaction reads: the committed tables.  Writes
\* made through tx stay private to the callback until it returns.
VisibleDirty(d, ts) ==
  IF \E t \in TaskIds : ts[t].op = "executeMerge" /\ ts[t].pc = "tx"
  THEN TxView(ts[CHOOSE t \in TaskIds :
                    ts[t].op = "executeMerge" /\ ts[t].pc = "tx"])
  ELSE d

Visible(d, ts) == d

\* The storage runs transactions serializably: a transaction commits only if
\* no other transaction has committed since it took its snapshot, otherwise
\* it is aborted.
NotSerializable(base, d) == TRUE

Serializable(base, d) == base = d

\* executeMerge is called: prisma.$transaction opens a transaction
StartMerge(t, type, primaryId, duplicateId) ==
  /\ tasks[t] = Idle
  /\ t = "b" => tasks["a"] # Idle
  /\ tasks' = [tasks EXCEPT ![t] =
                 [op          |-> "executeMerge",
                  type        |-> type,
                  primaryId   |-> primaryId,
                  duplicateId |-> duplicateId,
                  pc          |-> "tx",
                  base        |-> db,
                  done        |-> 0,
                  outcome     |-> "running",
                  result      |-> {}]]
  /\ UNCHANGED <<db, last, merged>>

\* one write call of the callback returns
MergeCall(t) ==
  /\ tasks[t].op = "executeMerge"
  /\ tasks[t].pc = "tx"
  /\ tasks[t].done < CompletedCalls(tasks[t])
  /\ tasks' = [tasks EXCEPT ![t].done = @ + 1]
  /\ UNCHANGED <<db, last, merged>>

\* the callback returns or throws: the transaction commits or is rolled back
MergeCommit(t) ==
  LET task  == tasks[t]
      r     == TxRun(task)
      valid == Serializable(task.base, db)
  IN  /\ task.op = "executeMerge"
      /\ task.pc = "tx"
      /\ task.done = CompletedCalls(task)
      /\ db' = IF valid THEN Commit(db, r) ELSE db
      /\ tasks' = [tasks EXCEPT ![t] =
                     [task EXCEPT !.pc = IF r.ok /\ valid THEN "reread" ELSE "done",
                                  !.outcome = IF r.ok /\ valid
                                              THEN "committed" ELSE "failed"]]
      /\ UNCHANGED <<last, merged>>

\* after the transaction: findUnique of the primary, then the MergeResponse
MergeReread(t) ==
  LET task == tasks[t]
  IN  /\ task.op = "executeMerge"
      /\ task.pc = "reread"
      /\ tasks' = [tasks EXCEPT ![t] =
                     [task EXCEPT
                        !.pc = "done",
                        !.outcome = "success",
                        !.result =
                           {[success      |-> TRUE,
                             mergedEntity |-> FindUnique(Visible(db, tasks), task.type,
                                                         task.primaryId),
                             transferredRelationships |-> TxRun(task).transferred,
                             deletedId    |-> task.duplicateId]}]]
      /\ UNCHANGED <<db, last, merged>>

\* the three queries of getVenueMergePreview
Queries == {"primary", "duplicate", "favorites"}

\* the answer of a query of getVenueMergePreview on given tables
Answer(q, d, primaryId, duplicateId) ==
  CASE q = "primary"   -> [rec |-> FindUnique(d, "venues", primaryId)]
    [] q = "duplicate" -> [rec    |-> FindUnique(d, "venues", duplicateId),
                           events |-> Cardinality(EventsAtVenue(d, duplicateId))]
    [] q = "favorites" -> [count |-> FavoritesCount(d, "venue", duplicateId)]

\* what getVenueMergePreview makes of the answers: the set holding the
\* preview, empty when it throws
VenuePreviewOf(seen) ==
  LET primary   == CHOOSE x \in seen.primary : TRUE
      duplicate == CHOOSE x \in seen.duplicate : TRUE
      favorites == CHOOSE x \in seen.favorites : TRUE
  IN  IF primary.rec = {} \/ duplicate.rec = {} THEN {}
      ELSE {[primary   |-> primary.rec,
             duplicate |-> duplicate.rec,
             relationshipsToTransfer |->
               [events |-> duplicate.events, favorites |-> favorites.count],
             warnings  |-> << >>,
             canMerge  |-> TRUE]}

\* both findUnique queries are answered and one of them found nothing
PreviewWillThrow(seen) ==
  /\ seen.primary # {}
  /\ seen.duplicate # {}
  /\ \E x \in seen.primary \cup seen.duplicate : x.rec = {}

\* getMergePreview("venues", primaryId, duplicateId) is called
StartVenuePreview(t, primaryId, duplicateId) ==
  /\ tasks[t] = Idle
  /\ t = "b" => tasks["a"] # Idle
  /\ tasks' = [tasks EXCEPT ![t] =
                 [op          |-> "getMergePreview",
                  type        |-> "venues",
                  primaryId   |-> primaryId,
                  duplicateId |-> duplicateId,
                  pc          |-> "query",
                  seen        |-> [q \in Queries |-> {}],
                  outcome     |-> "running",
                  result      |-> {}]]
  /\ UNCHANGED <<db, last, merged>>

\* One query of the preview is answered.  The two findUnique queries are
\* issued together (Promise.all) and are answered in either order; the count
\* of the favorites is issued after both have found their record.
PreviewQueryDeleting(t, q) ==
  LET task == tasks[t]
  IN  /\ task.op = "getMergePreview"
      /\ task.pc = "query"
      /\ task.seen[q] = {}
      /\ q = "favorites" =>
            /\ task.seen.primary # {}
            /\ task.seen.duplicate # {}
            /\ ~PreviewWillThrow(task.seen)
      /\ tasks' = [tasks EXCEPT ![t].seen[q] =
                     {Answer(q, Visible(db, tasks), task.primaryId,
                             task.duplicateId)}]
      /\ db' = IF q = "favorites"
               THEN FavoriteDeleteMany(db, "venue", task.duplicateId)
               ELSE db
      /\ UNCHANGED <<last, merged>>

PreviewQuery(t, q) ==
  LET task == tasks[t]
  IN  /\ task.op = "getMergePreview"
      /\ task.pc = "query"
      /\ task.seen[q] = {}
      /\ q = "favorites" =>
            /\ task.seen.primary # {}
            /\ task.seen.duplicate # {}
            /\ ~PreviewWillThrow(task.seen)
      /\ tasks' = [tasks EXCEPT ![t].seen[q] =
                     {Answer(q, Visible(db, tasks), task.primaryId,
                             task.duplicateId)}]
      /\ UNCHANGED <<db, last, merged>>

\* the preview throws or returns
PreviewReturn(t) ==
  LET task == tasks[t]
      p    == IF PreviewWillThrow(task.seen) THEN {} ELSE VenuePreviewOf(task.seen)
  IN  /\ task.op = "getMergePreview"
      /\ task.pc = "query"
      /\ PreviewWillThrow(task.seen) \/ \A q \in Queries : task.seen[q] # {}
      /\ tasks' = [tasks EXCEPT ![t] =
                     [task EXCEPT !.pc = "done",
                                  !.outcome = IF p = {} THEN "failed" ELSE "success",
                                  !.result = p]]
      /\ UNCHANGED <<db, last, merged>>

ConcInit ==
  /\ db = InitialDb(MaxId, MaxRows)
  /\ last = [op |-> "none"]
  /\ merged = {}
  /\ tasks = [t \in TaskIds |-> Idle]

ConcNext ==
  \E t \in TaskIds :
     \/ \E type \in Types, primaryId \in Ids, duplicateId \in Ids :
           StartMerge(t, type, primaryId, duplicateId)
     \/ MergeCall(t)
     \/ MergeCommit(t)
     \/ MergeReread(t)
     \/ \E primaryId \in Ids, duplicateId \in Ids :
           StartVenuePreview(t, primaryId, duplicateId)
     \/ \E q \in Queries : PreviewQuery(t, q)
     \/ PreviewReturn(t)

ConcSpec == ConcInit /\ [][ConcNext]_vars

\* toggleFavorite is called.  Its two storage calls run outside any
\* transaction: each is one step, and other callers may run in between.
StartToggle(t, userId, favoritableType, favoritableId) ==
  /\ tasks[t] = Idle
  /\ t = "b" => tasks["a"] # Idle
  /\ tasks' = [tasks EXCEPT ![t] =
                 [op              |-> "toggleFavorite",
                  userId          |-> userId,
                  favoritableType |-> favoritableType,
                  favoritableId   |-> favoritableId,
                  pc              |-> "find",
                  existing        |-> {},
                  outcome         |-> "running",
                  result          |-> {}]]
  /\ UNCHANGED <<db, last, merged>>

\* const existing = await prisma.userFavorite.findUnique(...)
ToggleFind(t) ==
  LET task  == tasks[t]
      found == FavoriteFindUnique(Visible(db, tasks), task.userId,
                                  task.favoritableType, task.favoritableId)
  IN  /\ task.op = "toggleFavorite"
      /\ task.pc = "find"
      /\ \E existing \in (IF found = {} THEN {{}} ELSE {{f} : f \in found}) :
            tasks' = [tasks EXCEPT ![t] =
                        [task EXCEPT !.pc = "write", !.existing = existing]]
      /\ UNCHANGED <<db, last, merged>>

\* the delete or the create, then the return; a write that throws leaves the
\* tables as they are and makes the call throw
ToggleWrite(t) ==
  LET task == tasks[t]
      r    == ToggleWriteOf(db, task.existing, task.userId,
                            task.favoritableType, task.favoritableId)
  IN  /\ task.op = "toggleFavorite"
      /\ task.pc = "write"
      /\ db' = IF r.ok THEN r.db ELSE db
      /\ tasks' = [tasks EXCEPT ![t] =
                     IF r.ok
                     THEN [task EXCEPT !.pc = "done", !.outcome = "success",
                                       !.result = {[isFavorited |-> r.isFavorited]}]
                     ELSE [task EXCEPT !.pc = "done", !.outcome = "failed"]]
      /\ UNCHANGED <<last, merged>>

\* toggleFavorite and executeMerge calls of two callers, interleaved
ToggleInit ==
  /\ db = InitialDb(MaxId, MaxRows)
  /\ last = [op |-> "none"]
  /\ merged = {}
  /\ tasks = [t \in TaskIds |-> Idle]

ToggleNext ==
  \E t \in TaskIds :
     \/ \E userId \in Ids, i \in 1..Len(TagOrder), favoritableId \in Ids :
           StartToggle(t, userId, TagOrder[i], favoritableId)
     \/ ToggleFind(t)
     \/ ToggleWrite(t)
     \/ \E type \in Types, primaryId \in Ids, duplicateId \in Ids :
           StartMerge(t, type, primaryId, duplicateId)
     \/ MergeCall(t)
     \/ MergeCommit(t)
     \/ MergeReread(t)

ToggleSpec == ToggleInit /\ [][ToggleNext]_vars

\* ------------------------------------------------- GET /api/admin/duplicates
\* The handler of the duplicates listing.  A query parameter is the set
\* holding its string, empty when the parameter is missing (null); a string is
\* a sequence of characters.
Chars == {"0", "1", "5", ".", "-", "x"}

Strings == UNION {[1..n -> Chars] : n \in 0..MaxLen}

Params(strings) == {{}} \cup {{x} : x \in strings}

\* the session of the caller: none, or a user with a role
Sessions == {"none", "USER", "ADMIN"}

\* values of the type parameter: the four entity types, the empty string and
\* a string that is no entity type
TypeStrings == Types \cup {"", "users"}

IsDigit(c) == c \in {"0", "1", "5", "7"}

DigitValue(c) ==
  CASE c = "0" -> 0
    [] c = "1" -> 1
    [] c = "5" -> 5
    [] c = "7" -> 7

\* length of the longest run of digits of s that starts at position i
DigitRun(s, i) ==
  CHOOSE n \in 0..Len(s) :
     /\ i + n - 1 <= Len(s)
     /\ \A k \in i..(i + n - 1) : IsDigit(s[k])
     /\ (i + n <= Len(s) => ~IsDigit(s[i + n]))

RECURSIVE Decimal(_, _, _)
\* the number written by the n digits of s from position i
Decimal(s, i, n) ==
  IF n = 0 THEN 0
  ELSE 10 * Decimal(s, i, n - 1) + DigitValue(s[i + n - 1])

RECURSIVE Pow10(_)
Pow10(n) == IF n = 0 THEN 1 ELSE 10 * Pow10(n - 1)

\* parseFloat(s): the number written by the longest prefix of s that is a
\* decimal literal (sign, digits, point, digits), NaN when there is none.
\* The number is neg * mant / scale.
ParseFloat(s) ==
  LET neg     == Len(s) >= 1 /\ s[1] = "-"
      start   == IF neg THEN 2 ELSE 1
      intLen  == DigitRun(s, start)
      dot     == start + intLen
      hasDot  == dot <= Len(s) /\ s[dot] = "."
      fracLen == IF hasDot THEN DigitRun(s, dot + 1) ELSE 0
  IN  IF intLen = 0 /\ fracLen = 0
      THEN [nan |-> TRUE, neg |-> FALSE, mant |-> 0, scale |-> 1]
      ELSE [nan   |-> FALSE,
            neg   |-> neg,
            mant  |-> Decimal(s, start, intLen) * Pow10(fracLen)
                        + Decimal(s, dot + 1, fracLen),
            scale |-> Pow10(fracLen)]

\* parseFloat(searchParams.get("threshold") || "0.7")
Threshold(param) ==
  IF param = {} \/ param = {<< >>}
  THEN ParseFloat(<<"0", ".", "7">>)
  ELSE ParseFloat(CHOOSE x \in param : TRUE)

\* !type || ![...].includes(type)
TypeInvalid(param) == param = {} \/ param = {""} \/ ~(param \subseteq Types)

\* isNaN(threshold) || threshold < 0 || threshold > 1
ThresholdInvalidNoUpperLimit(th) == th.nan \/ (th.neg /\ th.mant > 0)

ThresholdInvalid(th) ==
  \/ th.nan
  \/ th.neg /\ th.mant > 0
  \/ ~th.neg /\ th.mant > th.scale

\* a request arrives
GetRequest(session, type, threshold) ==
  [op        |-> "GET",
   pc        |-> "auth",
   session   |-> session,
   type      |-> type,
   threshold |-> threshold,
   reads     |-> 0,
   scored    |-> FALSE,
   status    |-> 0]

\* const session = await auth(); 401 unless the role is ADMIN
GetAuth(t) ==
  LET task == tasks[t]
  IN  /\ task.op = "GET"
      /\ task.pc = "auth"
      /\ tasks' = [tasks EXCEPT ![t] =
                     IF task.session # "ADMIN"
                     THEN [task EXCEPT !.pc = "done", !.status = 401]
                     ELSE [task EXCEPT !.pc = "validate"]]
      /\ UNCHANGED <<db, last, merged>>

\* the two parameter checks, each answering 400
GetValidate(t) ==
  LET task == tasks[t]
  IN  /\ task.op = "GET"
      /\ task.pc = "validate"
      /\ tasks' = [tasks EXCEPT ![t] =
                     IF TypeInvalid(task.type)
                          \/ ThresholdInvalid(Threshold(task.threshold))
                     THEN [task EXCEPT !.pc = "done", !.status = 400]
                     ELSE [task EXCEPT !.pc = "load"]]
      /\ UNCHANGED <<db, last, merged>>

\* await prisma.<model>.findMany(...): returns the records or throws, which
\* the catch block answers with 500
GetLoad(t, throws) ==
  LET task == tasks[t]
  IN  /\ task.op = "GET"
      /\ task.pc = "load"
      /\ tasks' = [tasks EXCEPT ![t] =
                     IF throws
                     THEN [task EXCEPT !.pc = "done", !.reads = @ + 1,
                                       !.status = 500]
                     ELSE [task EXCEPT !.pc = "score", !.reads = @ + 1]]
      /\ UNCHANGED <<db, last, merged>>

\* findDuplicatePairs(records, comparisonString, threshold) and the response
GetRespond(t) ==
  LET task == tasks[t]
  IN  /\ task.op = "GET"
      /\ task.pc = "score"
      /\ tasks' = [tasks EXCEPT ![t] =
                     [task EXCEPT !.pc = "done", !.scored = TRUE,
                                  !.status = 200]]
      /\ UNCHANGED <<db, last, merged>>

\* ------------------------------------------------------ POST /api/favorites
\* The handler of the favorite toggle.  The session is the set holding the id
\* of its user, empty when auth() returns null.  The body is what
\* request.json() makes of the request: it throws on a body that is no JSON
\* text; otherwise it is null or an object whose type and id are each the set
\* holding the value, empty when the field is missing.
PostSessions == Params(Ids)

\* values of the type field: the three favoritable types of the route, the
\* empty string and a string that is none of the three
PostTypeStrings == {"", "event", "venue", "vendor", "promoter"}

Bodies ==
  {[kind |-> k, type |-> {}, id |-> {}] : k \in {"malformed", "null"}}
    \cup {[kind |-> "object", type |-> type, id |-> id] :
            type \in Params(PostTypeStrings), id \in Params(Ids)}

\* const VALID_TYPES = ["event", "venue", "vendor"]
VALID_TYPES == {"event", "venue", "vendor"}

\* request.json() throws, or destructuring its value throws
BodyThrows(body) == body.kind # "object"

\* !type || !id
MissingTypeOrId(body) == body.type = {} \/ body.type = {""} \/ body.id = {}

\* a request arrives
PostRequest(session, body) ==
  [op      |-> "POST",
   pc      |-> "auth",
   session |-> session,
   body    |-> body,
   called  |-> {},
   status  |-> 0,
   result  |-> {}]

\* const session = await auth(); 401 when there is none
PostAuth(t) ==
  LET task == tasks[t]
  IN  /\ task.op = "POST"
      /\ task.pc = "auth"
      /\ tasks' = [tasks EXCEPT ![t] =
                     IF task.session = {}
                     THEN [task EXCEPT !.pc = "done", !.status = 401]
                     ELSE [task EXCEPT !.pc = "body"]]
      /\ UNCHANGED <<db, last, merged>>

\* inside try: the body is read and destructured (a throw is answered 500 by
\* the catch block), then the two checks, each answering 400
PostValidate(t) ==
  LET task == tasks[t]
  IN  /\ task.op = "POST"
      /\ task.pc = "body"
      /\ tasks' = [tasks EXCEPT ![t] =
                     IF BodyThrows(task.body)
                     THEN [task EXCEPT !.pc = "done", !.status = 500]
                     ELSE IF MissingTypeOrId(task.body)
                             \/ ~(task.body.type \subseteq VALID_TYPES)
                     THEN [task EXCEPT !.pc = "done", !.status = 400]
                     ELSE [task EXCEPT !.pc = "toggle"]]
      /\ UNCHANGED <<db, last, merged>>

\* await toggleFavorite(session.user.id, type, id): the result is answered
\* with 200, a throw (the storage faults) with 500 by the catch block
PostToggle(t, throws) ==
  LET task   == tasks[t]
      userId == CHOOSE u \in task.session : TRUE
      type   == CHOOSE x \in task.body.type : TRUE
      id     == CHOOSE x \in task.body.id : TRUE
      r      == ToggleFavorite(db, userId, type, id)
  IN  /\ task.op = "POST"
      /\ task.pc = "toggle"
      /\ db' = IF throws \/ ~r.ok THEN db ELSE r.db
      /\ tasks' = [tasks EXCEPT ![t] =
                     IF throws \/ ~r.ok
                     THEN [task EXCEPT !.pc = "done",
                                       !.called = {<<userId, type, id>>},
                                       !.status = 500]
                     ELSE [task EXCEPT !.pc = "done",
                                       !.called = {<<userId, type, id>>},
                                       !.status = 200,
                                       !.result = {[isFavorited |-> r.isFavorited]}]]
      /\ UNCHANGED <<last, merged>>

\* one request is handled: a GET of the duplicates listing or a POST of the
\* favorite toggle
RouteInit ==
  /\ db = InitialDb(MaxId, MaxRows)
  /\ last = [op |-> "none"]
  /\ merged = {}
  /\ \/ \E session \in Sessions, type \in Params(TypeStrings),
           threshold \in Params(Strings) :
           tasks = [t \in TaskIds |->
                      IF t = "a" THEN GetRequest(session, type, threshold) ELSE Idle]
     \/ \E session \in PostSessions, body \in Bodies :
           tasks = [t \in TaskIds |->
                      IF t = "a" THEN PostRequest(session, body) ELSE Idle]

RouteNext ==
  \E t \in TaskIds :
     \/ GetAuth(t)
     \/ GetValidate(t)
     \/ \E throws \in BOOLEAN : GetLoad(t, throws)
     \/ GetRespond(t)
     \/ PostAuth(t)
     \/ PostValidate(t)
     \/ \E throws \in BOOLEAN : PostToggle(t, throws)

RouteSpec == RouteInit /\ [][RouteNext]_vars

\* ------------------------------------------------- duplicates/similarity
\* The scorer and the pair finder that the duplicates listing imports.  A
\* string is a sequence of characters; " " is the whitespace character.
SimChars == {"a", "b", " "}

\* "county fairgrounds" and "county fair grounds"
CountyFairgrounds ==
  <<"c", "o", "u", "n", "t", "y", " ",
    "f", "a", "i", "r", "g", "r", "o", "u", "n", "d", "s">>

CountyFairGrounds ==
  <<"c", "o", "u", "n", "t", "y", " ", "f", "a", "i", "r", " ",
    "g", "r", "o", "u", "n", "d", "s">>

\* a normalized string: trimmed, with single spaces between its tokens
Normalized(s) ==
  /\ Len(s) > 0 => (s[1] # " " /\ s[Len(s)] # " ")
  /\ \A k \in 1..(Len(s) - 1) : ~(s[k] = " " /\ s[k + 1] = " ")

SimStrings ==
  {s \in UNION {[1..n -> SimChars] : n \in 0..MaxLen} : Normalized(s)}
    \cup {CountyFairgrounds, CountyFairGrounds}

\* the whitespace-delimited tokens of a string
Tokens(s) ==
  {SubSeq(s, i, j) : <<i, j>> \in
     {p \in (1..Len(s)) \X (1..Len(s)) :
        /\ p[1] <= p[2]
        /\ \A k \in p[1]..p[2] : s[k] # " "
        /\ (p[1] = 1 \/ s[p[1] - 1] = " ")
        /\ (p[2] = Len(s) \/ s[p[2] + 1] = " ")}}

\* similarity(a, b): the Jaccard index of the two token sets as the fraction
\* num / den, 0 when neither string has a token
SimilarityEmptyIsOne(a, b) ==
  LET union == Tokens(a) \cup Tokens(b)
  IN  IF union = {} THEN [num |-> 1, den |-> 1]
      ELSE [num |-> Cardinality(Tokens(a) \cap Tokens(b)),
            den |-> Cardinality(union)]

Similarity(a, b) ==
  LET union == Tokens(a) \cup Tokens(b)
  IN  IF union = {} THEN [num |-> 0, den |-> 1]
      ELSE [num |-> Cardinality(Tokens(a) \cap Tokens(b)),
            den |-> Cardinality(union)]

\* a threshold the caller has validated is th.mant / th.scale in [0, 1]
Hundredths(m) == [nan |-> FALSE, neg |-> FALSE, mant |-> m, scale |-> 100]

SimThresholds == {Hundredths(m) : m \in {0, 20, 25, 50, 70, 100}}

\* similarity >= threshold
AboveThreshold(sim, th) == sim.num * th.scale > th.mant * sim.den

AtLeast(sim, th) == sim.num * th.scale >= th.mant * sim.den

\* the comparison string of an entity of the collection
ToComparisonString(entity) == entity.name

RECURSIVE PairsFrom(_, _, _, _)
\* the pairs that the two loops collect from (i, j) on: j runs over the
\* entities after i, i over all entities
PairsFrom(entities, i, j, threshold) ==
  IF i > Len(entities) THEN << >>
  ELSE IF j > Len(entities) THEN PairsFrom(entities, i + 1, i + 2, threshold)
  ELSE LET sim == Similarity(ToComparisonString(entities[i]),
                             ToComparisonString(entities[j]))
       IN  (IF AtLeast(sim, threshold)
            THEN <<[entity1 |-> entities[i], entity2 |-> entities[j],
                    similarity |-> sim]>>
            ELSE << >>)
             \o PairsFrom(entities, i, j + 1, threshold)

\* findDuplicatePairs(entities, toComparisonString, threshold)
FindDuplicatePairsFalsyThreshold(entities, threshold) ==
  IF threshold.mant = 0 THEN << >> ELSE PairsFrom(entities, 1, 2, threshold)

FindDuplicatePairs(entities, threshold) == PairsFrom(entities, 1, 2, threshold)

\* similarity is called on two normalized strings
SimilarityInit ==
  /\ db = InitialDb(MaxId, MaxRows)
  /\ last = [op |-> "none"]
  /\ merged = {}
  /\ \E a \in SimStrings, b \in SimStrings :
        tasks = [t \in TaskIds |->
                   IF t = "a"
                   THEN [op |-> "similarity", pc |-> "call", a |-> a, b |-> b,
                         result |-> {}]
                   ELSE Idle]

SimilarityReturn(t) ==
  /\ tasks[t].op = "similarity"
  /\ tasks[t].pc = "call"
  /\ tasks' = [tasks EXCEPT ![t].pc = "done",
                            ![t].result = {Similarity(tasks[t].a, tasks[t].b)}]
  /\ UNCHANGED <<db, last, merged>>

SimilarityNext == \E t \in TaskIds : SimilarityReturn(t)

SimilaritySpec == SimilarityInit /\ [][SimilarityNext]_vars

\* findDuplicatePairs is called on a collection of up to MaxEntities records
\* whose comparison strings come from Names; the id of a record is its place
\* in the collection
MaxEntities == 3

Names ==
  {<< >>, <<"a">>, <<"b">>, <<"a", " ", "b">>, <<"b", " ", "a">>,
   <<"a", "b">>, CountyFairgrounds, CountyFairGrounds}

Collections ==
  UNION {{[i \in 1..n |-> [id |-> i, name |-> names[i]]] :
            names \in [1..n -> Names]} : n \in 0..MaxEntities}

PairsInit ==
  /\ db = InitialDb(MaxId, MaxRows)
  /\ last = [op |-> "none"]
  /\ merged = {}
  /\ \E entities \in Collections, threshold \in SimThresholds :
        tasks = [t \in TaskIds |->
                   IF t = "a"
                   THEN [op |-> "findDuplicatePairs", pc |-> "call",
                         entities |-> entities, threshold |-> threshold,
                         result |-> << >>]
                   ELSE Idle]

FindDuplicatePairsReturn(t) ==
  /\ tasks[t].op = "findDuplicatePairs"
  /\ tasks[t].pc = "call"
  /\ tasks' = [tasks EXCEPT ![t].pc = "done",
                            ![t].result = FindDuplicatePairs(tasks[t].entities,
                                                             tasks[t].threshold)]
  /\ UNCHANGED <<db, last, merged>>

PairsNext == \E t \in TaskIds : FindDuplicatePairsReturn(t)

PairsSpec == PairsInit /\ [][PairsNext]_vars

\* ------------------------------------------------------------------ claims
\* the last step was an executeMerge call of one of the given types that
\* returned success
MergeSucceeded(types) ==
  /\ last.op = "executeMerge"
  /\ last.outcome = "success"
  /\ last.type \in types

\* the MergeResponse of the last call
Response == CHOOSE x \in last.result : TRUE

\* the last step was an executeMerge call that threw
MergeFailed ==
  /\ last.op = "executeMerge"
  /\ last.outcome = "failed"

\* C1: an executeMerge call of any kind that fails at any step inside its
\* transaction leaves every table as it was before the call: duplicate and
\* primary (an event's viewCount included) are unmodified and no event,
\* eventVendor or userFavorite row is re-pointed or deleted.
C1_FailedMergeChangesNothing ==
  [][(last'.op = "executeMerge" /\ last'.outcome = "failed") => db' = db]_vars

\* an event merge threw after its callback had written
C1_Witness ==
  /\ MergeFailed
  /\ last.type = "events"
  /\ last.dirty

\* C2: starting without duplicate (eventId, vendorId) pairs, no sequence of
\* merges leaves two eventVendor rows with the same (eventId, vendorId).
C2_NoDuplicateJoinRows == UniqueEventVendor(db)

\* a vendor or event merge re-pointed a row onto a primary that kept its own
C2_Witness ==
  /\ MergeSucceeded({"vendors", "events"})
  /\ Response.transferredRelationships.eventVendors >= 1
  /\ Cardinality(IF last.type = "vendors"
                  THEN RowsOfVendor(db, last.primaryId)
                  ELSE RowsOfEvent(db, last.primaryId)) >= 2

\* C3: starting without duplicate (userId, favoritableType, favoritableId)
\* triples, no sequence of merges of any kind leaves two userFavorite rows
\* with the same triple.
C3_NoDuplicateFavorites == UniqueFavorite(db)

\* a merge re-pointed a favorite onto a primary that already had one
C3_Witness ==
  /\ MergeSucceeded(Types)
  /\ Response.transferredRelationships.favorites >= 1
  /\ Cardinality(FavoritesOn(db, FavTag(last.type), last.primaryId)) >= 2

\* rows that still reference the duplicate of a merge of the given type
DependentsOf(d, type, id) ==
  CASE type = "venues"    -> EventsAtVenue(d, id)
    [] type = "promoters" -> EventsOfPromoter(d, id)
    [] type = "vendors"   -> RowsOfVendor(d, id)
    [] type = "events"    -> RowsOfEvent(d, id)

\* C4: a successful executeMerge of a type leaves exactly one record fewer of
\* that type, the duplicate id no longer resolves, and the record counts of
\* the other three types are unchanged.
C4_MergeRemovesExactlyTheDuplicate ==
  [][(last'.op = "executeMerge" /\ last'.outcome = "success") =>
       /\ CountOf(db', last'.type) = CountOf(db, last'.type) - 1
       /\ ~Exists(db', last'.type, last'.duplicateId)
       /\ \A t \in Types \ {last'.type} : CountOf(db', t) = CountOf(db, t)]_vars

\* a merge of two distinct records succeeded and its primary is still there
C4_Witness ==
  /\ MergeSucceeded(Types)
  /\ last.primaryId # last.duplicateId
  /\ Exists(db, last.type, last.primaryId)
  /\ CountOf(db, last.type) = MaxId - 1

\* C5: after a successful merge no dependent row references the deleted
\* duplicate: no event by venueId or promoterId, no eventVendor row by
\* eventId or vendorId, no userFavorite row of that kind by favoritableId.
C5_NoDependentOfDuplicate ==
  MergeSucceeded(Types) =>
    /\ DependentsOf(db, last.type, last.duplicateId) = {}
    /\ FavoritesOn(db, FavTag(last.type), last.duplicateId) = {}

\* a merge moved favorites while the primary already had favorites of its own
C5_Witness ==
  /\ MergeSucceeded(Types)
  /\ last.primaryId # last.duplicateId
  /\ Response.transferredRelationships.favorites >= 1
  /\ \E f \in FavoritesOn(db, FavTag(last.type), last.primaryId) : f.userId = 1

C7_UnresolvedIdFails ==
  [][\A type \in Types, primaryId \in Ids, duplicateId \in Ids :
       (/\ ~Exists(db, type, primaryId) \/ ~Exists(db, type, duplicateId)
        /\ ExecuteMerge(type, primaryId, duplicateId, 0))
       => (last'.outcome = "failed" /\ db' = db)]_vars

\* C8: getMergePreview throws, for every type, exactly when the primaryId or
\* the duplicateId does not resolve to a record of that type, and returns a
\* preview when both resolve.
C8_PreviewThrowsIffUnresolved ==
  last.op = "getMergePreview" =>
    /\ last.outcome = "failed" <=>
          (\/ ~Exists(db, last.type, last.primaryId)
           \/ ~Exists(db, last.type, last.duplicateId))
    /\ last.outcome = "success" <=> last.result # {}

\* a preview threw although its primary exists, because its duplicate has
\* been merged away
C8_Witness ==
  /\ last.op = "getMergePreview"
  /\ last.outcome = "failed"
  /\ Exists(db, last.type, last.primaryId)
  /\ last.duplicateId \in Ids
  /\ ~Exists(db, last.type, last.duplicateId)

\* C9: once executeMerge has succeeded for (type, primaryId, duplicateId),
\* every later call with the same arguments fails and changes no table.
C9_MergedPairNeverMergesAgain ==
  [][\A m \in merged :
       ExecuteMerge(m[1], m[2], m[3], 0) => (last'.outcome = "failed" /\ db' = db)]_vars

\* a call that repeated a successful merge threw
C9_Witness ==
  /\ MergeFailed
  /\ last.again
  /\ merged # {}

\* C10: the favorites count of a preview is the number of the duplicate's
\* favorites of that kind whose user has no favorite of that kind on the
\* primary.
C10_PreviewCountsTransferableFavorites ==
  (last.op = "getMergePreview" /\ last.outcome = "success") =>
    Response.relationshipsToTransfer.favorites =
      Cardinality({f \in FavoritesOn(db, FavTag(last.type), last.duplicateId) :
                     \A g \in FavoritesOn(db, FavTag(last.type), last.primaryId) :
                        g.userId # f.userId})

\* rows of an event or of a vendor, by the type of the merge
RowsOf(d, type, id) ==
  IF type = "vendors" THEN RowsOfVendor(d, id) ELSE RowsOfEvent(d, id)

\* the other side of an eventVendor row: the event of a vendor's row, the
\* vendor of an event's row
Counterpart(type, ev) == IF type = "vendors" THEN ev.eventId ELSE ev.vendorId

Counterparts(d, type, id) == {Counterpart(type, ev) : ev \in RowsOf(d, type, id)}

\* the warnings of a sequence that are of one of the given kinds
WarningsOf(warnings, kinds) ==
  {i \in 1..Len(warnings) : warnings[i].kind \in kinds}

PreviewReturned(types) ==
  /\ last.op = "getMergePreview"
  /\ last.outcome = "success"
  /\ last.type \in types

\* C11: in a vendor or event preview, eventVendors is the number of the
\* duplicate's eventVendor rows whose counterpart is not linked to the
\* primary, it is never negative, and the overlap warning is present exactly
\* when a counterpart is linked to both records.
C11_PreviewCountsTransferableRows ==
  PreviewReturned({"vendors", "events"}) =>
    LET shared == Counterparts(db, last.type, last.primaryId)
                    \cap Counterparts(db, last.type, last.duplicateId)
    IN  /\ Response.relationshipsToTransfer.eventVendors =
             Cardinality({ev \in RowsOf(db, last.type, last.duplicateId) :
                            Counterpart(last.type, ev) \notin
                              Counterparts(db, last.type, last.primaryId)})
        /\ Response.relationshipsToTransfer.eventVendors >= 0
        /\ (WarningsOf(Response.warnings,
                       {"overlappingEvents", "overlappingVendors"}) # {})
             <=> (shared # {})

\* a vendor preview of two records with one shared event and one event to
\* transfer
C11_Witness ==
  /\ PreviewReturned({"vendors"})
  /\ last.primaryId # last.duplicateId
  /\ Response.relationshipsToTransfer.eventVendors >= 1
  /\ \E i \in 1..Len(Response.warnings) :
        Response.warnings[i] = Warning("overlappingEvents", 1)

\* C12: a successful vendor (event) merge leaves the primary linked to the
\* union of the counterparts of primary and duplicate; of two rows with the
\* same counterpart the primary's survives and the duplicate's is deleted;
\* transferredRelationships.eventVendors is the number of re-pointed rows.
C12_JoinRowsAreUnitedOnThePrimary ==
  [][(/\ last'.op = "executeMerge"
      /\ last'.outcome = "success"
      /\ last'.type \in {"vendors", "events"}) =>
       LET t == last'.type
           P == last'.primaryId
           D == last'.duplicateId
           response  == CHOOSE x \in last'.result : TRUE
           repointed == {ev \in RowsOf(db, t, D) :
                           \E n \in RowsOf(db', t, P) : n.id = ev.id}
       IN  /\ Counterparts(db', t, P) =
                Counterparts(db, t, P) \cup Counterparts(db, t, D)
           /\ RowsOf(db, t, P) \subseteq db'.eventVendor
           /\ \A ev \in RowsOf(db, t, D) :
                 Counterpart(t, ev) \in Counterparts(db, t, P) =>
                    ~ \E n \in db'.eventVendor : n.id = ev.id
           /\ response.transferredRelationships.eventVendors =
                Cardinality(repointed)]_vars

\* C13: in a successful merge each favorite on the duplicate whose user has
\* not favorited the primary is re-pointed to the primary with its id and
\* userId, each favorite on the duplicate whose user has favorited the
\* primary is deleted, the primary's own favorites are kept, and
\* transferredRelationships.favorites is the number of re-pointed rows.
C13_FavoritesAreMovedOrDropped ==
  [][(last'.op = "executeMerge" /\ last'.outcome = "success") =>
       LET tag == FavTag(last'.type)
           P   == last'.primaryId
           D   == last'.duplicateId
           response == CHOOSE x \in last'.result : TRUE
           onP == FavoritesOn(db, tag, P)
           onD == FavoritesOn(db, tag, D)
           fresh == {f \in onD : \A g \in onP : g.userId # f.userId}
       IN  /\ \A f \in fresh :
                 [f EXCEPT !.favoritableId = P] \in db'.userFavorite
           /\ \A f \in onD \ fresh :
                 ~ \E n \in db'.userFavorite : n.id = f.id
           /\ onP \subseteq db'.userFavorite
           /\ response.transferredRelationships.favorites = Cardinality(fresh)]_vars

\* C14: after a successful event merge the primary's viewCount is its
\* viewCount before plus the duplicate's viewCount before; a successful merge
\* of another type changes no event's viewCount.
C14_ViewCountsAreAdded ==
  [][(last'.op = "executeMerge" /\ last'.outcome = "success") =>
       LET P == last'.primaryId
           D == last'.duplicateId
       IN  IF last'.type = "events"
           THEN /\ P \in DOMAIN db'.event
                /\ db'.event[P].viewCount =
                     db.event[P].viewCount + db.event[D].viewCount
           ELSE /\ DOMAIN db'.event = DOMAIN db.event
                /\ \A e \in DOMAIN db.event :
                      db'.event[e].viewCount = db.event[e].viewCount]_vars

\* C15: every preview that getMergePreview returns has canMerge = true, for
\* all four types, also when it carries overlap or advisory warnings.
C15_PreviewNeverBlocks ==
  PreviewReturned(Types) => Response.canMerge = TRUE

\* a returned preview that carries an overlap warning and an advisory warning
C15_Witness ==
  /\ PreviewReturned(Types)
  /\ WarningsOf(Response.warnings,
                {"overlappingEvents", "overlappingVendors"}) # {}
  /\ WarningsOf(Response.warnings,
                {"differentUserAccounts", "differentPromoters",
                 "differentVenues"}) # {}
  /\ Response.canMerge

\* C16: a promoter or vendor preview carries the different-user-accounts
\* warning iff the two userIds differ; an event preview carries the
\* different-promoters warning iff the promoterIds differ and the
\* different-venues warning iff the venueIds differ; a venue preview carries
\* no warning.
C16_AdvisoryWarnings ==
  PreviewReturned(Types) =>
    LET P == last.primaryId
        D == last.duplicateId
        Has(kind) == WarningsOf(Response.warnings, {kind}) # {}
    IN  /\ last.type = "promoters" =>
              (Has("differentUserAccounts") <=> db.promoter[P] # db.promoter[D])
        /\ last.type = "vendors" =>
              (Has("differentUserAccounts") <=> db.vendor[P] # db.vendor[D])
        /\ last.type = "events" =>
              /\ Has("differentPromoters") <=>
                    db.event[P].promoterId # db.event[D].promoterId
              /\ Has("differentVenues") <=>
                    db.event[P].venueId # db.event[D].venueId
        /\ last.type = "venues" => Response.warnings = << >>

\* an event preview that warns about the promoters but not about the venues
C16_Witness ==
  /\ PreviewReturned({"events"})
  /\ WarningsOf(Response.warnings, {"differentPromoters"}) # {}
  /\ WarningsOf(Response.warnings, {"differentVenues"}) = {}

\* the tables every run of concurrent calls starts from
ConcDb == InitialDb(MaxId, MaxRows)

\* the tables after the merge of a task has run alone on tables d: all of
\* its writes when it returns, none when it throws
MergeAlone(task, d) ==
  LET r == MergeTx(task.type, d, task.primaryId, task.duplicateId, 0)
  IN  IF r.ok THEN r.db ELSE d

Other(t) == CHOOSE u \in TaskIds : u # t

IsPreview(t) == tasks[t].op = "getMergePreview"

IsMerge(t) == tasks[t].op = "executeMerge"

Done(t) == tasks[t].op # "idle" /\ tasks[t].pc = "done"

C18_ReaderSeesOneState ==
  \A t \in TaskIds :
     (IsPreview(t) /\ Done(t) /\ IsMerge(Other(t))) =>
        tasks[t].result \in
          {VenuePreview(ConcDb, tasks[t].primaryId, tasks[t].duplicateId),
           VenuePreview(MergeAlone(tasks[Other(t)], ConcDb),
                        tasks[t].primaryId, tasks[t].duplicateId)}

\* C18 as amended: every query of a reader that runs next to a merge is
\* answered from the complete pre-merge tables or from the complete
\* post-merge tables, never from an intermediate state of the merge.
C18_EachQuerySeesOneState ==
  \A t \in TaskIds :
     (IsPreview(t) /\ IsMerge(Other(t))) =>
        \A q \in Queries :
           tasks[t].seen[q] \subseteq
             {Answer(q, ConcDb, tasks[t].primaryId, tasks[t].duplicateId),
              Answer(q, MergeAlone(tasks[Other(t)], ConcDb),
                     tasks[t].primaryId, tasks[t].duplicateId)}

\* a preview found its duplicate before the merge committed and counted the
\* favorites after it
C18_Witness ==
  \E t \in TaskIds :
     /\ IsPreview(t)
     /\ IsMerge(Other(t))
     /\ LET P    == tasks[t].primaryId
            D    == tasks[t].duplicateId
            post == MergeAlone(tasks[Other(t)], ConcDb)
        IN  /\ tasks[t].seen.duplicate = {Answer("duplicate", ConcDb, P, D)}
            /\ Answer("duplicate", ConcDb, P, D) # Answer("duplicate", post, P, D)
            /\ tasks[t].seen.favorites = {Answer("favorites", post, P, D)}
            /\ Answer("favorites", ConcDb, P, D) # Answer("favorites", post, P, D)

\* entity type of a favoritableType tag
TypeOfTag(tag) == CHOOSE type \in Types : FavTag(type) = tag

\* the two merges share no record
DisjointMerges ==
  /\ IsMerge("a")
  /\ IsMerge("b")
  /\ \/ tasks["a"].type # tasks["b"].type
     \/ {tasks["a"].primaryId, tasks["a"].duplicateId}
          \cap {tasks["b"].primaryId, tasks["b"].duplicateId} = {}

Committed(t) == tasks[t].outcome \in {"committed", "success"}

C20_ValidationBeforeAnyRead ==
  \A t \in TaskIds :
     tasks[t].op = "GET" =>
       LET task  == tasks[t]
           th    == Threshold(task.threshold)
           admin == task.session = "ADMIN"
           valid == /\ task.type # {}
                    /\ task.type \subseteq Types
                    /\ ~th.nan
                    /\ th.neg => th.mant = 0
                    /\ th.mant <= th.scale
       IN  /\ (task.reads > 0 \/ task.scored) => (admin /\ valid)
           /\ (task.pc = "done" /\ ~admin) => (task.status = 401 /\ task.reads = 0)
           /\ (task.pc = "done" /\ admin /\ ~valid) =>
                 (task.status = 400 /\ task.reads = 0)

\* an administrator's request with a threshold above 1 was answered 400
C20_Witness ==
  \E t \in TaskIds :
     /\ tasks[t].op = "GET"
     /\ tasks[t].pc = "done"
     /\ tasks[t].session = "ADMIN"
     /\ tasks[t].type = {"venues"}
     /\ tasks[t].threshold = {<<"1", ".", "5">>}
     /\ tasks[t].status = 400
     /\ tasks[t].reads = 0

\* the step is an executeMerge call that returned success
MergeReturns == last'.op = "executeMerge" /\ last'.outcome = "success"

\* C26: a successful event merge leaves the primary's venueId and promoterId
\* as they were, also when the duplicate's differ, and changes no field of
\* the primary but viewCount.
C26_EventMergeKeepsPrimaryFields ==
  [][(MergeReturns /\ last'.type = "events") =>
       LET P == last'.primaryId
       IN  /\ P \in DOMAIN db'.event
           /\ db'.event[P].venueId = db.event[P].venueId
           /\ db'.event[P].promoterId = db.event[P].promoterId]_vars

\* C27: with no write between them, the counts of a preview equal the
\* counts the following successful merge of the same pair reports: events
\* for venue and promoter merges, eventVendors for vendor and event merges.
C27_PreviewCountsMatchMerge ==
  [][MergeReturns =>
       \A p \in Preview(db, last'.type, last'.primaryId, last'.duplicateId) :
          LET response == CHOOSE x \in last'.result : TRUE
          IN  IF last'.type \in {"venues", "promoters"}
              THEN p.relationshipsToTransfer.events =
                     response.transferredRelationships.events
              ELSE p.relationshipsToTransfer.eventVendors =
                     response.transferredRelationships.eventVendors]_vars

\* a vendor merge of two distinct records re-pointed a row and dropped an
\* overlapping one
C27_Witness ==
  /\ MergeSucceeded({"vendors"})
  /\ last.primaryId # last.duplicateId
  /\ Response.transferredRelationships.eventVendors = 1
  /\ Cardinality(RowsOfVendor(db, last.primaryId)) = MaxRows - 1
  /\ Cardinality(db.eventVendor) = MaxRows - 1

\* C28: after an executeMerge call that returned success the record of
\* primaryId exists and has every userFavorite and eventVendor row it had
\* before, also when primaryId = duplicateId.
C28_PrimarySurvives ==
  [][MergeReturns =>
       LET t == last'.type
           P == last'.primaryId
       IN  /\ Exists(db', t, P)
           /\ FavoritesOn(db, FavTag(t), P) \subseteq db'.userFavorite
           /\ t \in {"vendors", "events"} =>
                 RowsOf(db, t, P) \subseteq db'.eventVendor]_vars

\* C30: a merge of type K with ids (P, D) changes nothing outside its pair:
\* favorites of another tag or of a target that is neither P nor D, eventVendor
\* rows and event foreign keys that do not reference D, and entity records
\* other than P and D stay as they were.
C30_MergeTouchesOnlyItsPair ==
  [][MergeReturns =>
       LET t == last'.type
           P == last'.primaryId
           D == last'.duplicateId
       IN
          /\ \A f \in db.userFavorite :
                (f.favoritableType # FavTag(t) \/ f.favoritableId \notin {P, D})
                   => f \in db'.userFavorite
          /\ \A ev \in db.eventVendor :
                ~(\/ t = "vendors" /\ ev.vendorId = D
                  \/ t = "events" /\ ev.eventId = D)
                   => ev \in db'.eventVendor
          /\ \A e \in DOMAIN db.event :
                (t # "events" \/ e \notin {P, D}) =>
                   /\ e \in DOMAIN db'.event
                   /\ db'.event[e].viewCount = db.event[e].viewCount
                   /\ (t # "venues" \/ db.event[e].venueId # D) =>
                         db'.event[e].venueId = db.event[e].venueId
                   /\ (t # "promoters" \/ db.event[e].promoterId # D) =>
                         db'.event[e].promoterId = db.event[e].promoterId
          /\ \A v \in db.venue : (t # "venues" \/ v \notin {P, D}) => v \in db'.venue
          /\ \A x \in DOMAIN db.vendor :
                (t # "vendors" \/ x \notin {P, D}) =>
                   (x \in DOMAIN db'.vendor /\ db'.vendor[x] = db.vendor[x])
          /\ \A x \in DOMAIN db.promoter :
                (t # "promoters" \/ x \notin {P, D}) =>
                   (x \in DOMAIN db'.promoter /\ db'.promoter[x] = db.promoter[x])
          /\ db'.userFavorite \subseteq
                db.userFavorite \cup
                  {[f EXCEPT !.favoritableId = P] : f \in FavoritesOn(db, FavTag(t), D)}
          /\ DOMAIN db'.event \subseteq DOMAIN db.event
          /\ db'.venue \subseteq db.venue]_vars

\* a venue merge moved a favorite while the favorites of the other tags on
\* the same ids stayed
C30_Witness ==
  /\ MergeSucceeded({"venues"})
  /\ last.primaryId # last.duplicateId
  /\ Response.transferredRelationships.favorites >= 1
  /\ \E f \in db.userFavorite :
        f.favoritableType # "venue" /\ f.favoritableId = last.duplicateId

\* what the answer of a finished POST /api/favorites request must be when
\* toggleFavorite was invoked with the session user's id, the type and the id
PostInvoked(task) ==
  LET userId == CHOOSE u \in task.session : TRUE
      type   == CHOOSE x \in task.body.type : TRUE
      id     == CHOOSE x \in task.body.id : TRUE
  IN  /\ task.called = {<<userId, type, id>>}
      /\ task.status \in {200, 500}
      /\ task.status = 200 =>
            task.result = {[isFavorited |->
                              FavoriteFindUnique(db, userId, type, id) # {}]}
      /\ task.status = 500 => task.result = {} /\ db = InitialDb(MaxId, MaxRows)

\* the body of a POST request names a type and an id, and the type is one of
\* event, venue, vendor
PostWellFormed(task) ==
  /\ task.body.kind = "object"
  /\ task.body.type # {} /\ task.body.type # {""}
  /\ task.body.id # {}
  /\ task.body.type \subseteq {"event", "venue", "vendor"}

\* C25: POST /api/favorites invokes toggleFavorite only when a session
\* exists, type and id are present and the type is event, venue or vendor,
\* passing the session user's id, the type and the id and answering the result
\* with 200, or 500 when toggleFavorite throws; every other request is
\* answered 401 (no session) or 400 without invoking toggleFavorite.
C25_PostAnswers401Or400 ==
  \A t \in TaskIds :
     tasks[t].op = "POST" =>
       LET task == tasks[t]
       IN  /\ task.called # {} => (task.session # {} /\ PostWellFormed(task))
           /\ task.pc = "done" =>
                 IF task.session = {}
                 THEN task.status = 401 /\ task.called = {}
                 ELSE IF ~PostWellFormed(task)
                 THEN task.status = 400 /\ task.called = {}
                 ELSE PostInvoked(task)

\* C29: whatever runs between the commit of a merge and its re-read of the
\* primary, an executeMerge call that returns success carries the primary
\* record, never null, and the duplicate's id as deletedId.
C29_MergedEntityIsPrimary ==
  \A t \in TaskIds :
     (IsMerge(t) /\ tasks[t].outcome = "success") =>
        \A response \in tasks[t].result :
           /\ response.success
           /\ response.mergedEntity # {}
           /\ \A entity \in response.mergedEntity : entity.id = tasks[t].primaryId
           /\ response.deletedId = tasks[t].duplicateId

IsToggle(t) == tasks[t].op = "toggleFavorite"

\* the toggleFavorite call of a caller returns in this step
ToggleReturns(t) ==
  /\ IsToggle(t)
  /\ tasks[t].pc = "write"
  /\ tasks'[t].outcome = "success"

\* C24: however toggleFavorite calls and merges interleave, no two favorite
\* rows share (userId, favoritableType, favoritableId), and a toggleFavorite
\* call that returns reports isFavorited = true exactly when its write left a
\* row of its triple.
C24_TogglesKeepFavoritesUnique ==
  [][/\ UniqueFavorite(db')
     /\ \A t \in TaskIds :
           ToggleReturns(t) =>
              \A response \in tasks'[t].result :
                 response.isFavorited <=>
                    FavoriteFindUnique(db', tasks[t].userId, tasks[t].favoritableType,
                                       tasks[t].favoritableId) # {}]_vars

\* two calls of the same user for the same target both found no row; one has
\* created the row and returned, the create of the other was rejected
C24_Witness ==
  /\ IsToggle("a") /\ IsToggle("b")
  /\ tasks["a"].userId = tasks["b"].userId
  /\ tasks["a"].favoritableType = tasks["b"].favoritableType
  /\ tasks["a"].favoritableId = tasks["b"].favoritableId
  /\ tasks["a"].existing = {} /\ tasks["b"].existing = {}
  /\ \E t \in TaskIds :
        /\ tasks[t].outcome = "success"
        /\ tasks[Other(t)].outcome = "failed"

\* a findDuplicatePairs call of a caller has returned
PairsReturned(t) == tasks[t].op = "findDuplicatePairs" /\ tasks[t].pc = "done"

\* the Jaccard index of the token sets of two comparison strings is at least
\* m / n
JaccardAtLeast(a, b, m, n) ==
  LET A == Tokens(a)
      B == Tokens(b)
  IN  /\ A \cup B # {}
      /\ Cardinality(A \cap B) * n >= m * Cardinality(A \cup B)

\* the places (i, j) of the entities of the returned pairs
ReturnedPlaces(result) ==
  {<<result[k].entity1.id, result[k].entity2.id>> : k \in 1..Len(result)}

\* C21: findDuplicatePairs returns exactly the pairs (i, j), i < j in the
\* order of the collection, whose comparison strings have a similarity of at
\* least the threshold: each such pair once, no pair below the threshold, and
\* no pair of an entity with itself.
C21_PairsAreThoseAtThreshold ==
  \A t \in TaskIds :
     PairsReturned(t) =>
        LET entities == tasks[t].entities
            th       == tasks[t].threshold
            result   == tasks[t].result
        IN  /\ \A i, j \in 1..Len(entities) :
                  (i < j /\ (th.mant = 0 \/ JaccardAtLeast(entities[i].name,
                                                         entities[j].name,
                                                         th.mant, th.scale)))
                    <=> Cardinality({k \in 1..Len(result) :
                                       /\ result[k].entity1 = entities[i]
                                       /\ result[k].entity2 = entities[j]}) = 1
            /\ \A k \in 1..Len(result) :
                  /\ result[k].entity1.id # result[k].entity2.id
                  /\ result[k].entity1.id < result[k].entity2.id
                  /\ result[k].entity1 = entities[result[k].entity1.id]
                  /\ result[k].entity2 = entities[result[k].entity2.id]
            /\ Cardinality(ReturnedPlaces(result)) = Len(result)

\* of three entities, two pairs reach the threshold exactly or pass it and
\* the third pair stays below it
C21_Witness ==
  \E t \in TaskIds :
     /\ PairsReturned(t)
     /\ Len(tasks[t].entities) = MaxEntities
     /\ tasks[t].threshold = Hundredths(50)
     /\ Len(tasks[t].result) = MaxEntities - 1
     /\ \E k \in 1..Len(tasks[t].result) :
           tasks[t].result[k].similarity.num * 2 = tasks[t].result[k].similarity.den

\* C22: for one collection, the pairs returned at a threshold are among the
\* pairs returned at any lower threshold.
C22_ThresholdMonotone ==
  \A t \in TaskIds :
     PairsReturned(t) =>
        \A t1 \in SimThresholds :
           t1.mant <= tasks[t].threshold.mant =>
              ReturnedPlaces(tasks[t].result)
                 \subseteq ReturnedPlaces(FindDuplicatePairs(tasks[t].entities, t1))

\* a call at threshold 0.5 returned a pair and left out a pair that the call
\* at threshold 0.2 returns
C22_Witness ==
  \E t \in TaskIds :
     /\ PairsReturned(t)
     /\ tasks[t].threshold = Hundredths(50)
     /\ tasks[t].result # << >>
     /\ ReturnedPlaces(FindDuplicatePairs(tasks[t].entities, Hundredths(20)))
           # ReturnedPlaces(tasks[t].result)

\* a similarity call of a caller has returned
Scored(t) == tasks[t].op = "similarity" /\ tasks[t].pc = "done"

\* C23: similarity(a, b) is |A \cap B| / |A \cup B| for the token sets A and
\* B of the two strings, lies in [0, 1], is the same for (b, a), and is 0
\* when neither string has a token; for "county fairgrounds" and "county fair
\* grounds" it is 1/4, below the threshold 0.5 and at least the threshold 0.2.
C23_SimilarityIsJaccard ==
  \A t \in TaskIds :
     Scored(t) =>
        LET a == tasks[t].a
            b == tasks[t].b
            A == Tokens(a)
            B == Tokens(b)
        IN  \A sim \in tasks[t].result :
               /\ sim.den > 0
               /\ 0 <= sim.num /\ sim.num <= sim.den
               /\ A \cup B # {} =>
                     sim.num * Cardinality(A \cup B) = Cardinality(A \cap B) * sim.den
               /\ (a = << >> /\ b = << >>) => sim.num = 0
               /\ Similarity(b, a).num * sim.den = sim.num * Similarity(b, a).den
               /\ (a = CountyFairgrounds /\ b = CountyFairGrounds) =>
                     /\ sim.num * 4 = sim.den
                     /\ ~AtLeast(sim, Hundredths(50))
                     /\ AtLeast(sim, Hundredths(20))

\* the similarity of "county fairgrounds" and "county fair grounds" was
\* computed from one common token of four
C23_Witness ==
  \E t \in TaskIds :
     /\ Scored(t)
     /\ tasks[t].a = CountyFairgrounds
     /\ tasks[t].b = CountyFairGrounds
     /\ tasks[t].result = {[num |-> 1, den |-> 4]}

====
